---- MODULE Spec2Model ----
(***************************************************************************)
(* A model of the PIX payment relay: the TrexPay gateway client, the       *)
(* webhook signature verifier, the status mapper and the in-memory         *)
(* transaction store (src/lib/trexpay.ts), and the route handlers that     *)
(* use the store (src/app/api/pix/status/route.ts: status query, charge    *)
(* creation and webhook receiver).  HMAC-SHA256 is a keyed digest of       *)
(* DigestLen hexadecimal digits.                                           *)
(*                                                                         *)
(* Strings are sequences of one-character strings; the empty sequence is   *)
(* the empty string and also stands for undefined/null where the code      *)
(* only tests truthiness (`a || b`, `!a`).  Timestamps are 1..MaxTime, 0   *)
(* stands for an absent timestamp and InvalidDate for a Date whose time    *)
(* value is NaN.                                                           *)
(***************************************************************************)
EXTENDS Integers, Sequences, FiniteSets, TLC

\* ------------------------------------------------------------------ bounds
NumCreates == 2
NumWebhooks == 2
NumQueries == 1
MaxTime == 2
DigestLen == 2
MaxCaseBits == 4

Creates == 1..NumCreates
Webhooks == 1..NumWebhooks
Queries == 1..NumQueries
Times == 1..MaxTime

\* The request handlers that call sendOrderToUtmfy.
Handlers ==
  {<<"create", h>> : h \in Creates} \cup {<<"webhook", w>> : w \in Webhooks}

\* ----------------------------------------------------------------- strings
Empty == <<>>

LowerAlpha ==
  <<"a","b","c","d","e","f","g","h","i","j","k","l","m",
    "n","o","p","q","r","s","t","u","v","w","x","y","z">>

UpperAlpha ==
  <<"A","B","C","D","E","F","G","H","I","J","K","L","M",
    "N","O","P","Q","R","S","T","U","V","W","X","Y","Z">>

OtherChars ==
  <<"0","1","2","3","4","5","6","7","8","9","_","=","{","}",","," ","-">>

AllChars == LowerAlpha \o UpperAlpha \o OtherChars

HexDigits ==
  <<"0","1","2","3","4","5","6","7","8","9","a","b","c","d","e","f">>

CharSet == {AllChars[k] : k \in 1..Len(AllChars)}

\* The lower-case and upper-case forms of each character, and its code.
LowerOf ==
  [c \in CharSet |->
     IF \E k \in 1..Len(UpperAlpha) : UpperAlpha[k] = c
       THEN LowerAlpha[CHOOSE k \in 1..Len(UpperAlpha) : UpperAlpha[k] = c]
       ELSE c]

UpperOf ==
  [c \in CharSet |->
     IF \E k \in 1..Len(LowerAlpha) : LowerAlpha[k] = c
       THEN UpperAlpha[CHOOSE k \in 1..Len(LowerAlpha) : LowerAlpha[k] = c]
       ELSE c]

CodeOf == [c \in CharSet |-> CHOOSE k \in 1..Len(AllChars) : AllChars[k] = c]

LowerChar(c) == LowerOf[c]

UpperChar(c) == UpperOf[c]

\* String.prototype.toLowerCase on the modelled alphabet.
toLowerCase(s) == [i \in 1..Len(s) |-> LowerChar(s[i])]

CharCode(c) == CodeOf[c]

RECURSIVE WeightedSumTo(_, _)
WeightedSumTo(s, n) ==
  IF n = 0 THEN 0 ELSE WeightedSumTo(s, n - 1) + n * CharCode(s[n])

WeightedSum(s) == WeightedSumTo(s, Len(s))

Digit(n) == OtherChars[n + 1]

Str_sha256 == <<"s","h","a","2","5","6","=">>

\* The shared secret the gateway signs with, and a key that is not it.
SecretKey == <<"s","k">>

OtherKey == <<"x">>

TokenValue == <<"t","o","k">>

\* ------------------------------------------------------------------- dates
\* The Date `new Date(x)` makes of a string no date can be parsed from; the
\* same value stands for such a string in a payload.
InvalidDate == -1

\* new Date(v) of a timestamp or of a date string.
newDate(v) == IF v \in Times THEN v ELSE InvalidDate

\* Date.prototype.toISOString: the text of the date (here the timestamp
\* itself), or a RangeError on an invalid date.
toISOString(d) ==
  IF d = InvalidDate THEN [threw |-> TRUE, iso |-> 0] ELSE [threw |-> FALSE, iso |-> d]

\* --------------------------------------------------------------- variables
VARIABLES
  env,               \* [token, secret]: TREXPAY_TOKEN / TREXPAY_SECRET
  transactionStore,  \* the Map: transaction id -> record
  utmStore,          \* order ids handed to saveUtmParams
  gatewayCalls,      \* per charge-creation handler: fetch calls to the gateway
  utmfyCalls,        \* per handler: its calls to sendOrderToUtmfy, in order
  create,            \* per charge-creation handler: position and locals
  webhook,           \* per webhook handler: position and locals
  query,             \* per status-query handler: its request and its answer
  call,              \* a direct call of a library function (FnSpec)
  ret                \* what the direct calls returned so far (FnSpec)

vars ==
  <<env, transactionStore, utmStore, gatewayCalls, utmfyCalls,
    create, webhook, query, call, ret>>

\* ------------------------------------------------------ webhook verifier
\* JSON.stringify of a parsed webhook payload (no insignificant whitespace).
JSONstringify(payload) ==
  <<"{">> \o payload.idTransaction \o <<",">> \o payload.status \o <<",">>
    \o (IF payload.paid_at = 0 THEN Empty
        ELSE IF payload.paid_at \in Times THEN <<Digit(payload.paid_at)>>
        ELSE <<"x">>)
    \o <<",">> \o payload.metaTxid \o <<"}">>

\* crypto.createHmac("sha256", key).update(msg).digest("hex"): a keyed digest
\* of fixed length over the hexadecimal digits.
Hmac(key, msg) ==
  LET k == WeightedSum(key)
      m == WeightedSum(msg)
  IN  [i \in 1..DigestLen |-> HexDigits[((k * (i + 2) + m * i + Len(msg)) % 16) + 1]]

\* crypto.timingSafeEqual on the two buffers: a RangeError when the lengths
\* differ, else the byte-wise comparison.
timingSafeEqual(a, b) ==
  IF Len(a) # Len(b) THEN "RangeError"
  ELSE IF \A i \in 1..Len(a) : a[i] = b[i] THEN "true" ELSE "false"

expectedSignature(payload, secret) ==
  Str_sha256 \o Hmac(secret, JSONstringify(payload))

\* The verifier without its try/catch: the RangeError escapes.
verifyNoCatch(payload, signature, secret) ==
  IF signature = Empty \/ secret = Empty THEN "false"
  ELSE LET r == timingSafeEqual(signature, expectedSignature(payload, secret))
       IN  IF r = "RangeError" THEN "throw" ELSE r

\* The verifier looking at the header's "sha256=" prefix alone.
verifyPrefixOnly(payload, signature, secret) ==
  IF signature = Empty \/ secret = Empty THEN "false"
  ELSE IF Len(signature) >= Len(Str_sha256)
            /\ SubSeq(signature, 1, Len(Str_sha256)) = Str_sha256
         THEN "true" ELSE "false"

\* Returns "true" or "false"; "throw" would be an exception reaching the caller.
verifyTrexPaySignature(payload, signature, secret) ==
  IF signature = Empty \/ secret = Empty THEN "false"
  ELSE LET r == timingSafeEqual(signature, expectedSignature(payload, secret))
       IN  IF r = "RangeError" THEN "false" ELSE r

\* ---------------------------------------------------------- status mapper
Str_paid == <<"p","a","i","d">>

Str_approved == <<"a","p","p","r","o","v","e","d">>

Str_completed == <<"c","o","m","p","l","e","t","e","d">>

Str_cancelled == <<"c","a","n","c","e","l","l","e","d">>

Str_canceled == <<"c","a","n","c","e","l","e","d">>

Str_refused == <<"r","e","f","u","s","e","d">>

Str_expired == <<"e","x","p","i","r","e","d">>

Str_pending == <<"p","e","n","d","i","n","g">>

Str_waiting_payment ==
  <<"w","a","i","t","i","n","g","_","p","a","y","m","e","n","t">>

CanonicalStatuses == {"pending", "paid", "cancelled", "expired"}

TerminalStatuses == {"paid", "cancelled", "expired"}

\* The mapper with the toLowerCase() call left out.
mapCaseSensitive(status) ==
  CASE status \in {Str_paid, Str_approved, Str_completed} -> "paid"
    [] status \in {Str_cancelled, Str_canceled, Str_refused} -> "cancelled"
    [] status = Str_expired -> "expired"
    [] OTHER -> "pending"

\* The mapper without its default: a word it does not know is "unknown".
mapNoDefault(status) ==
  LET s == toLowerCase(status)
  IN  CASE s \in {Str_paid, Str_approved, Str_completed} -> "paid"
        [] s \in {Str_cancelled, Str_canceled, Str_refused} -> "cancelled"
        [] s = Str_expired -> "expired"
        [] OTHER -> "unknown"

mapTrexPayStatus(status) ==
  LET s == toLowerCase(status)
  IN  CASE s \in {Str_paid, Str_approved, Str_completed} -> "paid"
        [] s \in {Str_cancelled, Str_canceled, Str_refused} -> "cancelled"
        [] s = Str_expired -> "expired"
        [] s \in {Str_pending, Str_waiting_payment} -> "pending"
        [] OTHER -> "pending"

\* ------------------------------------------------------ transaction store
\* A record of the Map.  paidAt = 0: the record has no paidAt property.
saveTransaction(store, transactionId, data, now) ==
  [k \in DOMAIN store \cup {transactionId} |->
     IF k = transactionId
       THEN [orderId |-> data.orderId, status |-> data.status,
             amount |-> data.amount, customer |-> data.customer,
             trackingParams |-> data.trackingParams,
             products |-> data.products, createdAt |-> now, paidAt |-> 0]
       ELSE store[k]]

\* transactionStore.get: the record, or nothing (undefined).
getTransaction(store, transactionId) ==
  IF transactionId \in DOMAIN store THEN <<store[transactionId]>> ELSE <<>>

\* The update with a misplaced else: the status is assigned only when no
\* paid timestamp is being recorded.
updateMisplacedElse(store, transactionId, status, paidAt) ==
  IF transactionId \in DOMAIN store
    THEN [store EXCEPT ![transactionId] =
            IF paidAt # 0 /\ @.paidAt = 0
              THEN [@ EXCEPT !.paidAt = paidAt]
              ELSE [@ EXCEPT !.status = status]]
    ELSE store

\* The update as an upsert: a missing record is created.
updateUpsert(store, transactionId, status, paidAt) ==
  [k \in DOMAIN store \cup {transactionId} |->
     IF k = transactionId
       THEN IF k \in DOMAIN store
              THEN [store[k] EXCEPT !.status = status,
                                    !.paidAt = IF paidAt # 0 THEN paidAt ELSE @]
              ELSE [orderId |-> Empty, status |-> status, amount |-> 0,
                    customer |-> Empty, trackingParams |-> Empty,
                    products |-> Empty, createdAt |-> 0, paidAt |-> paidAt]
       ELSE store[k]]

\* The update with sticky terminal statuses: a record that is paid,
\* cancelled or expired is left as it is.
updateSticky(store, transactionId, status, paidAt) ==
  IF transactionId \in DOMAIN store
       /\ store[transactionId].status \notin TerminalStatuses
    THEN [store EXCEPT ![transactionId] =
            [@ EXCEPT !.status = status,
                      !.paidAt = IF paidAt # 0 THEN paidAt ELSE @]]
    ELSE store

\* The update applied to the whole Map: every record takes the status when
\* the addressed one exists.
updateEveryRecord(store, transactionId, status, paidAt) ==
  IF transactionId \in DOMAIN store
    THEN [k \in DOMAIN store |->
            [store[k] EXCEPT !.status = status,
                             !.paidAt = IF paidAt # 0 /\ k = transactionId
                                          THEN paidAt ELSE @]]
    ELSE store

updateTransactionStatus(store, transactionId, status, paidAt) ==
  IF transactionId \in DOMAIN store
    THEN [store EXCEPT ![transactionId] =
            [@ EXCEPT !.status = status,
                      !.paidAt = IF paidAt # 0 THEN paidAt ELSE @]]
    ELSE store

\* --------------------------------------------------------- gateway client
\* a || b on strings: the first truthy (non-empty, defined) operand.
Or(a, b) == IF a # Empty THEN a ELSE b

Str_credentials == <<"c","r","e","d">>

Str_default_error == <<"E","r","r","o">>

Str_transport == <<"f","e","t","c","h">>

Str_syntax == <<"j","s","o","n">>

Str_type == <<"n","u","l","l">>

NoPix ==
  [outcome |-> "none", success |-> FALSE, transaction_id |-> Empty,
   txid |-> Empty, error |-> Empty]

pixFailure(error) ==
  [outcome |-> "return", success |-> FALSE, transaction_id |-> Empty,
   txid |-> Empty, error |-> error]

pixThrown(error) ==
  [outcome |-> "throw", success |-> FALSE, transaction_id |-> Empty,
   txid |-> Empty, error |-> error]

\* The credentials test with && in place of ||.
credentialsBothMissing(token, secret) == token = Empty /\ secret = Empty

credentialsMissing(token, secret) == token = Empty \/ secret = Empty

\* fetch rejected: the catch block's result.
pixOnTransportError == pixFailure(Str_transport)

\* The second half of the try block with the parse outside the try: a body
\* that is not JSON makes response.json() reject, and nothing catches it.
pixFromResponseNoCatch(ok, body) ==
  IF body.kind = "unparseable" THEN pixThrown(Str_syntax)
  ELSE IF body.kind = "null" THEN pixThrown(Str_type)
  ELSE IF ~ok
    THEN pixFailure(Or(body.message, Or(body.error, Str_default_error)))
    ELSE [outcome |-> "return", success |-> TRUE,
          transaction_id |-> Or(body.transaction_id, Or(body.id, body.idTransaction)),
          txid |-> Or(body.txid, body.tx_id), error |-> Empty]

\* The success result reading the transaction id under `transaction_id`
\* alone.
pixFromResponseOneName(ok, body) ==
  IF body.kind = "unparseable" THEN pixFailure(Str_syntax)
  ELSE IF body.kind = "null" THEN pixFailure(Str_type)
  ELSE IF ~ok
    THEN pixFailure(Or(body.message, Or(body.error, Str_default_error)))
    ELSE [outcome |-> "return", success |-> TRUE,
          transaction_id |-> body.transaction_id,
          txid |-> Or(body.txid, body.tx_id), error |-> Empty]

\* createTrexPayPix once fetch has resolved with a response: response.json(),
\* the !response.ok branch, the normalised success result, and the catch
\* block for a rejected response.json() or a property read on null.
pixFromResponse(ok, body) ==
  IF body.kind = "unparseable" THEN pixFailure(Str_syntax)
  ELSE IF body.kind = "null" THEN pixFailure(Str_type)
  ELSE IF ~ok
    THEN pixFailure(Or(body.message, Or(body.error, Str_default_error)))
    ELSE [outcome |-> "return", success |-> TRUE,
          transaction_id |-> Or(body.transaction_id, Or(body.id, body.idTransaction)),
          txid |-> Or(body.txid, body.tx_id), error |-> Empty]

\* ------------------------------------------------------------ identifiers
\* What the gateway assigns to the charge of handler h, and the order id
\* generateOrderId() gives it.
GwId(h) == <<"t","x",Digit(h)>>

GwTxid(h) == <<"e","2","e",Digit(h)>>

OrderId(h) == <<"P","E","D","-",Digit(h)>>

UnknownId == <<"t","x","0">>

Customer(h) == <<"c","u","s","t",Digit(h)>>

Products(h) == <<"i","t","e","m",Digit(h)>>

Str_utm == <<"u","t","m">>

Str_msg == <<"m","s","g">>

Str_err == <<"e","r","r">>

Amounts == {4990}

\* The JSON bodies the gateway may answer the charge of handler h with.
\* An object carries the transaction id under at most one of its three
\* names and the txid under at most one of its two; message and error are
\* what an error answer carries.
BodyObject(idName, txidName, message, error, h) ==
  [kind |-> "object",
   transaction_id |-> IF idName = "transaction_id" THEN GwId(h) ELSE Empty,
   id |-> IF idName = "id" THEN GwId(h) ELSE Empty,
   idTransaction |-> IF idName = "idTransaction" THEN GwId(h) ELSE Empty,
   txid |-> IF txidName = "txid" THEN GwTxid(h) ELSE Empty,
   tx_id |-> IF txidName = "tx_id" THEN GwTxid(h) ELSE Empty,
   message |-> message, error |-> error]

ResponseBodies(h) ==
  {[kind |-> "unparseable"], [kind |-> "null"]}
  \cup {BodyObject(idName, txidName, Empty, Empty, h) :
          idName \in {"none", "transaction_id", "id", "idTransaction"},
          txidName \in {"none", "txid", "tx_id"}}
  \cup {BodyObject("none", "none", message, error, h) :
          message \in {Empty, Str_msg}, error \in {Empty, Str_err}}

\* The bodies a charge-creation request may carry.
CreateBodies ==
  {"badjson", "nocustomer", "noitems", "badtotal", "valid", "valid_utm"}

\* ------------------------------------------------- charge creation (POST)
NoResp == [status |-> 0, body |-> "none"]

\* The forwarding try/catch with the catch rethrowing: a rejected
\* sendOrderToUtmfy reaches the outer catch and the answer is the 500.
afterForwardRethrown(outcome, resp) ==
  IF outcome = "throw" THEN [status |-> 500, body |-> "internal_error"] ELSE resp

\* try { await sendOrderToUtmfy(...) } catch { console.error(...) }: however
\* the call settles, the handler goes on to the answer it was going to give.
afterForward(outcome, resp) == resp

\* fetch, httpOk and bodyKind: how the gateway call went (fetch rejected or
\* resolved, response.ok, and what response.json() found).
IdleCreate ==
  [pc |-> "idle", body |-> "none", orderId |-> Empty, fetch |-> "none",
   httpOk |-> FALSE, bodyKind |-> "none", pix |-> NoPix,
   transactionId |-> Empty, resp |-> NoResp]

\* The handler returns `resp` and ends.
CreateRespond(h, c, resp) ==
  create' = [create EXCEPT ![h] = [c EXCEPT !.pc = "done", !.resp = resp]]

\* The handler saving the record before it tests the result: a failure
\* result leaves a pending record under the order id.
CreateSaveBeforeTest(h, c, pix, now) ==
  IF pix.outcome = "throw"
    THEN /\ CreateRespond(h, [c EXCEPT !.pix = pix],
                          [status |-> 500, body |-> "internal_error"])
         /\ UNCHANGED <<transactionStore, utmfyCalls>>
  ELSE LET transactionId == Or(pix.transaction_id, Or(pix.txid, c.orderId))
           saved ==
             saveTransaction(transactionStore, transactionId,
               [orderId |-> c.orderId, status |-> "pending",
                amount |-> CHOOSE a \in Amounts : TRUE,
                customer |-> Customer(h),
                trackingParams |-> IF c.body = "valid_utm" THEN Str_utm ELSE Empty,
                products |-> Products(h)],
               now)
       IN  /\ transactionStore' = saved
           /\ IF ~pix.success
                THEN /\ CreateRespond(h, [c EXCEPT !.pix = pix],
                                      [status |-> 500, body |-> "gateway_error"])
                     /\ UNCHANGED utmfyCalls
                ELSE /\ utmfyCalls' =
                          [utmfyCalls EXCEPT ![<<"create", h>>] =
                             Append(@, [orderId |-> c.orderId,
                                        status |-> "waiting_payment"])]
                     /\ create' = [create EXCEPT ![h] =
                          [c EXCEPT !.pc = "forward", !.pix = pix,
                                    !.transactionId = transactionId]]

\* The handler from the value createTrexPayPix gave it (a result, or an
\* exception, which the outer catch turns into the 500 response) to its next
\* await: the failure response, or saveTransaction and the waiting_payment
\* call to sendOrderToUtmfy.
CreateAfterPix(h, c, pix, now) ==
  IF pix.outcome = "throw"
    THEN /\ CreateRespond(h, [c EXCEPT !.pix = pix],
                          [status |-> 500, body |-> "internal_error"])
         /\ UNCHANGED <<transactionStore, utmfyCalls>>
  ELSE IF ~pix.success
    THEN /\ CreateRespond(h, [c EXCEPT !.pix = pix],
                          [status |-> 500, body |-> "gateway_error"])
         /\ UNCHANGED <<transactionStore, utmfyCalls>>
  ELSE LET transactionId == Or(pix.transaction_id, Or(pix.txid, c.orderId))
       IN  /\ transactionStore' =
                saveTransaction(transactionStore, transactionId,
                  [orderId |-> c.orderId, status |-> "pending",
                   amount |-> CHOOSE a \in Amounts : TRUE,
                   customer |-> Customer(h),
                   trackingParams |-> IF c.body = "valid_utm" THEN Str_utm ELSE Empty,
                   products |-> Products(h)],
                  now)
           /\ utmfyCalls' =
                [utmfyCalls EXCEPT ![<<"create", h>>] =
                   Append(@, [orderId |-> c.orderId, status |-> "waiting_payment"])]
           /\ create' = [create EXCEPT ![h] =
                [c EXCEPT !.pc = "forward", !.pix = pix,
                          !.transactionId = transactionId]]

\* The request arrives and the handler runs to its first outbound call:
\* request.json(), the validations, generateOrderId, saveUtmParams, and
\* createTrexPayPix up to its credentials test or its fetch.  Handlers are
\* numbered in the order their requests arrive.
CreatePOST(h) ==
  /\ create[h].pc = "idle"
  /\ IF h = 1 THEN TRUE ELSE create[h - 1].pc # "idle"
  /\ \E body \in CreateBodies :
       LET c == [create[h] EXCEPT !.body = body]
       IN  IF body = "badjson"
             THEN /\ CreateRespond(h, c, [status |-> 500, body |-> "internal_error"])
                  /\ UNCHANGED <<utmStore, gatewayCalls>>
           ELSE IF body = "nocustomer"
             THEN /\ CreateRespond(h, c, [status |-> 400, body |-> "customer_incomplete"])
                  /\ UNCHANGED <<utmStore, gatewayCalls>>
           ELSE IF body = "noitems"
             THEN /\ CreateRespond(h, c, [status |-> 400, body |-> "no_items"])
                  /\ UNCHANGED <<utmStore, gatewayCalls>>
           ELSE IF body = "badtotal"
             THEN /\ CreateRespond(h, c, [status |-> 400, body |-> "invalid_total"])
                  /\ UNCHANGED <<utmStore, gatewayCalls>>
           ELSE LET d == [c EXCEPT !.orderId = OrderId(h)]
                IN  /\ utmStore' = IF body = "valid_utm"
                                     THEN utmStore \cup {OrderId(h)}
                                     ELSE utmStore
                    /\ IF credentialsMissing(env.token, env.secret)
                         THEN /\ CreateRespond(h,
                                   [d EXCEPT !.pix = pixFailure(Str_credentials)],
                                   [status |-> 500, body |-> "gateway_error"])
                              /\ UNCHANGED gatewayCalls
                         ELSE /\ gatewayCalls' = [gatewayCalls EXCEPT ![h] = @ + 1]
                              /\ create' = [create EXCEPT ![h] = [d EXCEPT !.pc = "fetch"]]
  /\ UNCHANGED <<env, transactionStore, utmfyCalls, webhook, query, call, ret>>

\* The gateway call with one retry: a rejected fetch is issued again.
CreateFetchRetry(h) ==
  /\ create[h].pc = "fetch"
  /\ \/ /\ gatewayCalls[h] < 2
        /\ gatewayCalls' = [gatewayCalls EXCEPT ![h] = @ + 1]
        /\ UNCHANGED <<create, transactionStore, utmfyCalls>>
     \/ /\ gatewayCalls[h] >= 2
        /\ CreateAfterPix(h, [create[h] EXCEPT !.fetch = "rejected"],
                          pixOnTransportError, 0)
        /\ UNCHANGED gatewayCalls
     \/ /\ \E ok \in BOOLEAN :
             create' = [create EXCEPT ![h] =
                          [@ EXCEPT !.pc = "respjson", !.fetch = "resolved",
                                    !.httpOk = ok]]
        /\ UNCHANGED <<transactionStore, utmfyCalls, gatewayCalls>>
  /\ UNCHANGED <<env, utmStore, webhook, query, call, ret>>

\* fetch settles: it rejects (the catch block's failure result reaches the
\* handler), or it resolves with a response and response.json() is awaited.
CreateFetch(h) ==
  /\ create[h].pc = "fetch"
  /\ \/ /\ CreateAfterPix(h, [create[h] EXCEPT !.fetch = "rejected"],
                           pixOnTransportError, 0)
     \/ /\ \E ok \in BOOLEAN :
             create' = [create EXCEPT ![h] =
                          [@ EXCEPT !.pc = "respjson", !.fetch = "resolved",
                                    !.httpOk = ok]]
        /\ UNCHANGED <<transactionStore, utmfyCalls>>
  /\ UNCHANGED <<env, utmStore, gatewayCalls, webhook, query, call, ret>>

\* response.json() settles and createTrexPayPix returns to the handler.
CreateRespJson(h) ==
  /\ create[h].pc = "respjson"
  /\ \E body \in ResponseBodies(h), now \in Times :
       CreateAfterPix(h, [create[h] EXCEPT !.bodyKind = body.kind],
                      pixFromResponse(create[h].httpOk, body), now)
  /\ UNCHANGED <<env, utmStore, gatewayCalls, webhook, query, call, ret>>

\* sendOrderToUtmfy settles (its rejection is caught and logged) and the
\* handler answers with the PIX data.
CreateForward(h) ==
  /\ create[h].pc = "forward"
  /\ \E outcome \in {"ok", "throw"} :
       CreateRespond(h, create[h],
                     afterForward(outcome, [status |-> 200, body |-> "pix_created"]))
  /\ UNCHANGED <<env, transactionStore, utmStore, gatewayCalls, utmfyCalls,
                 webhook, query, call, ret>>

\* -------------------------------------------------- webhook receiver (POST)
\* The header a gateway holding SecretKey computes over the body it sends,
\* the body being the payload's JSON without insignificant whitespace.
GatewaySignature(payload) ==
  Str_sha256 \o Hmac(SecretKey, JSONstringify(payload))

\* mapPaymentStatusToUtmfy of lib/utmfy, on the one value it is called with.
mapPaymentStatusToUtmfy(status) ==
  IF status = "refused" THEN "refused" ELSE "waiting_payment"

\* The raw statuses the deliveries carry; one in upper case.
RawStatuses ==
  {Str_approved, [i \in 1..Len(Str_refused) |-> UpperChar(Str_refused[i])],
   Str_expired, Str_waiting_payment}

\* data.idTransaction and data.metadata.txid of a delivered payload.
WebhookIdPairs ==
  UNION {{<<GwId(h), Empty>>, <<Empty, GwTxid(h)>>} : h \in Creates}
  \cup {<<UnknownId, Empty>>}

\* The gateway names in a delivery a charge it has been asked to create;
\* any other id is one no charge has.
DeliverableIds ==
  {<<UnknownId, Empty>>}
  \cup UNION {{<<GwId(h), Empty>>, <<Empty, GwTxid(h)>>} :
               h \in {g \in Creates : gatewayCalls[g] > 0}}

\* data.paid_at accompanies an approved payment only: a date, or a text no
\* date can be parsed from.
WebhookPayloads ==
  {p \in [idTransaction : {ids[1] : ids \in WebhookIdPairs},
          metaTxid : {ids[2] : ids \in WebhookIdPairs},
          status : RawStatuses, paid_at : {0, MaxTime, InvalidDate}] :
     /\ <<p.idTransaction, p.metaTxid>> \in WebhookIdPairs
     /\ p.paid_at # 0 => p.status = Str_approved}

DummyPayload ==
  [idTransaction |-> Empty, metaTxid |-> Empty, status |-> Empty, paid_at |-> 0]

\* A delivery: whether request.text() rejects, whether the body is JSON, the
\* payload JSON.parse gives, and the x-signature/signature header: "" when
\* neither is sent, the gateway's signature, or a header that is too short
\* to be one.
WebhookRequests ==
  {[textFails |-> TRUE, malformed |-> FALSE, payload |-> DummyPayload,
    signature |-> Empty],
   [textFails |-> FALSE, malformed |-> TRUE, payload |-> DummyPayload,
    signature |-> Empty]}
  \cup UNION {
    {[textFails |-> FALSE, malformed |-> FALSE, payload |-> p, signature |-> sig] :
       sig \in {Empty, GatewaySignature(p), Str_sha256}} :
    p \in WebhookPayloads}

IdleWebhook ==
  [pc |-> "idle", req |-> [textFails |-> FALSE, malformed |-> FALSE,
                           payload |-> DummyPayload, signature |-> Empty],
   isValid |-> "none", transactionId |-> Empty, status |-> "none",
   found |-> FALSE, updated |-> FALSE, paidAt |-> 0, resp |-> NoResp]

\* The signature gate that lets an invalid signature through.
signatureGateOpen(signature, payload, secret) ==
  IF signature # Empty /\ secret # Empty
    THEN IF verifyTrexPaySignature(payload, signature, secret) = "true"
           THEN "true" ELSE "unchecked"
    ELSE "unchecked"

\* "Verifica assinatura (se fornecida)": the verifier's answer when a header
\* was sent and the secret is configured, "unchecked" otherwise.
signatureGate(signature, payload, secret) ==
  IF signature # Empty /\ secret # Empty
    THEN verifyTrexPaySignature(payload, signature, secret)
    ELSE "unchecked"

\* The answer to a webhook whose transaction is unknown, as a 404.
notFoundResponse404 == [status |-> 404, body |-> "not_found"]

\* {success: true, message: "Transaction not found but acknowledged"}
notFoundResponse == [status |-> 200, body |-> "not_found_acknowledged"]

WebhookRespond(w, r, resp) ==
  webhook' = [webhook EXCEPT ![w] = [r EXCEPT !.pc = "done", !.resp = resp]]

\* The forwarding with a call for every status: a webhook that leaves the
\* record pending forwards waiting_payment.
webhookNotificationAlways(status) ==
  IF status = "paid" THEN "paid"
  ELSE IF status = "cancelled" \/ status = "expired"
    THEN mapPaymentStatusToUtmfy("refused")
  ELSE "waiting_payment"

\* The status the webhook handler forwards for a mapped status: paid for
\* paid, refused for cancelled and expired, and no call ("none") otherwise.
webhookNotification(status) ==
  IF status = "paid" THEN "paid"
  ELSE IF status = "cancelled" \/ status = "expired"
    THEN mapPaymentStatusToUtmfy("refused")
  ELSE "none"

\* The handler awaiting its forwarding call between the lookup and the
\* update: the step that found the record ends at the await, the record not
\* yet written.
WebhookApplyAfterAwait(w, r, transaction, now) ==
  LET u == [r EXCEPT !.found = TRUE]
      notification == webhookNotification(r.status)
  IN  /\ UNCHANGED transactionStore
      /\ IF notification # "none"
           THEN /\ utmfyCalls' =
                     [utmfyCalls EXCEPT ![<<"webhook", w>>] =
                        Append(@, [orderId |-> transaction.orderId,
                                   status |-> notification])]
                /\ webhook' = [webhook EXCEPT ![w] = [u EXCEPT !.pc = "forward"]]
         ELSE /\ WebhookRespond(w, u, [status |-> 200, body |-> "processed"])
              /\ UNCHANGED utmfyCalls

\* The webhook handler with a known record: updateTransactionStatus, then
\* the call to sendOrderToUtmfy its status asks for, or the answer.
WebhookApply(w, r, transaction, now) ==
  LET paidAt == IF r.status = "paid"
                  THEN newDate(IF r.req.payload.paid_at # 0
                                 THEN r.req.payload.paid_at ELSE now)
                  ELSE 0
      u == [r EXCEPT !.found = TRUE, !.updated = TRUE, !.paidAt = paidAt]
      notification == webhookNotification(r.status)
  IN  /\ transactionStore' =
           updateTransactionStatus(transactionStore, r.transactionId, r.status, paidAt)
      /\ IF notification # "none"
           THEN /\ utmfyCalls' =
                     [utmfyCalls EXCEPT ![<<"webhook", w>>] =
                        Append(@, [orderId |-> transaction.orderId,
                                   status |-> notification])]
                /\ webhook' = [webhook EXCEPT ![w] = [u EXCEPT !.pc = "forward"]]
         ELSE /\ WebhookRespond(w, u, [status |-> 200, body |-> "processed"])
              /\ UNCHANGED utmfyCalls

\* A webhook arrives: the handler reads the signature header and awaits
\* request.text().  Handlers are numbered in the order their deliveries
\* arrive.  Which charge the delivery is about is settled when it is sent;
\* what else it carries is drawn when the handler reads it.
WebhookPOST(w) ==
  /\ webhook[w].pc = "idle"
  /\ IF w = 1 THEN TRUE ELSE webhook[w - 1].pc # "idle"
  /\ \E ids \in DeliverableIds :
       webhook' = [webhook EXCEPT ![w] =
         [@ EXCEPT !.pc = "text", !.req.payload.idTransaction = ids[1],
                   !.req.payload.metaTxid = ids[2]]]
  /\ UNCHANGED <<env, transactionStore, utmStore, gatewayCalls, utmfyCalls,
                 create, query, call, ret>>

\* request.text() settles and the handler runs to its next await: JSON.parse,
\* the signature gate, mapTrexPayStatus, getTransaction and, for a known
\* record, WebhookApply.
WebhookText(w) ==
  /\ webhook[w].pc = "text"
  /\ \E req \in {x \in WebhookRequests :
                   \/ x.textFails
                   \/ x.malformed
                   \/ /\ x.payload.idTransaction = webhook[w].req.payload.idTransaction
                      /\ x.payload.metaTxid = webhook[w].req.payload.metaTxid} :
     \* Date.now() is read only for a paid status without data.paid_at
     \E now \in IF mapTrexPayStatus(req.payload.status) = "paid"
                     /\ req.payload.paid_at = 0
                  THEN Times ELSE {MaxTime} :
       LET r == [webhook[w] EXCEPT !.req = req]
       IN  IF req.textFails
             THEN /\ WebhookRespond(w, r, [status |-> 500, body |-> "internal_error"])
                  /\ UNCHANGED <<transactionStore, utmfyCalls>>
           ELSE IF req.malformed
             THEN /\ WebhookRespond(w, r, [status |-> 400, body |-> "invalid_json"])
                  /\ UNCHANGED <<transactionStore, utmfyCalls>>
           ELSE
             LET isValid == signatureGate(req.signature, req.payload, env.secret)
                 v == [r EXCEPT !.isValid = isValid]
             IN  IF isValid = "throw"
                   THEN /\ WebhookRespond(w, v, [status |-> 500, body |-> "internal_error"])
                        /\ UNCHANGED <<transactionStore, utmfyCalls>>
                 ELSE IF isValid = "false"
                   THEN /\ WebhookRespond(w, v, [status |-> 401, body |-> "invalid_signature"])
                        /\ UNCHANGED <<transactionStore, utmfyCalls>>
                 ELSE
                   LET transactionId == Or(req.payload.idTransaction, req.payload.metaTxid)
                       status == mapTrexPayStatus(req.payload.status)
                       transaction == getTransaction(transactionStore, transactionId)
                       t == [v EXCEPT !.transactionId = transactionId, !.status = status]
                   IN  IF transaction = <<>>
                         THEN /\ WebhookRespond(w, t, notFoundResponse)
                              /\ UNCHANGED <<transactionStore, utmfyCalls>>
                         ELSE WebhookApply(w, t, transaction[1], now)
  /\ UNCHANGED <<env, utmStore, gatewayCalls, create, query, call, ret>>

\* sendOrderToUtmfy settles (its rejection is caught and logged) and the
\* handler answers {success: true, status}.
WebhookForward(w) ==
  /\ webhook[w].pc = "forward"
  /\ \E outcome \in {"ok", "throw"} :
       WebhookRespond(w, webhook[w],
                      afterForward(outcome, [status |-> 200, body |-> "processed"]))
  /\ UNCHANGED <<env, transactionStore, utmStore, gatewayCalls, utmfyCalls,
                 create, query, call, ret>>

\* ------------------------------------------------------ status query (GET)
\* searchParams.get("transactionId"): absent, or an id a client may hold.
QueryIds ==
  {Empty, UnknownId} \cup UNION {{GwId(h), GwTxid(h), OrderId(h)} : h \in Creates}

NoAnswer == [status |-> 0, body |-> "none", txStatus |-> "none", paidAt |-> 0]

IdleQuery == [pc |-> "idle", transactionId |-> Empty, resp |-> NoAnswer]

\* What the handler answers on a store: the 400 without an id, the record's
\* status and `paidAt?.toISOString() || null` (0 for null) for a known id,
\* pending for an unknown one, and the 500 of the catch block when
\* toISOString throws.
statusAnswer(store, transactionId) ==
  IF transactionId = Empty
    THEN [status |-> 400, body |-> "id_required", txStatus |-> "none", paidAt |-> 0]
  ELSE LET transaction == getTransaction(store, transactionId)
       IN  IF transaction # <<>>
             THEN LET paidAt == transaction[1].paidAt
                      iso == toISOString(paidAt)
                  IN  IF paidAt # 0 /\ iso.threw
                        THEN [status |-> 500, body |-> "internal_error",
                              txStatus |-> "none", paidAt |-> 0]
                        ELSE [status |-> 200, body |-> "found",
                              txStatus |-> transaction[1].status,
                              paidAt |-> IF paidAt # 0 THEN iso.iso ELSE 0]
             ELSE [status |-> 200, body |-> "not_found",
                   txStatus |-> "pending", paidAt |-> 0]

\* A status query is handled from its arrival to its answer in one run: the
\* handler has no await.
StatusGET(q) ==
  /\ query[q].pc = "idle"
  /\ IF q = 1 THEN TRUE ELSE query[q - 1].pc # "idle"
  /\ \E transactionId \in QueryIds :
       query' = [query EXCEPT ![q] =
         [pc |-> "done", transactionId |-> transactionId,
          resp |-> statusAnswer(transactionStore, transactionId)]]
  /\ UNCHANGED <<env, transactionStore, utmStore, gatewayCalls, utmfyCalls,
                 create, webhook, call, ret>>

\* ---------------------------------------------------------- specification
NoCall == [kind |-> "none"]

Init ==
  /\ env \in [token : {Empty, TokenValue}, secret : {Empty, SecretKey}]
  /\ transactionStore = <<>>
  /\ utmStore = {}
  /\ gatewayCalls = [h \in Creates |-> 0]
  /\ utmfyCalls = [x \in Handlers |-> <<>>]
  /\ create = [h \in Creates |-> IdleCreate]
  /\ webhook = [w \in Webhooks |-> IdleWebhook]
  /\ query = [q \in Queries |-> IdleQuery]
  /\ call = NoCall
  /\ ret = <<>>

\* One charge creation while the webhooks are delivered.
Next ==
  \/ CreatePOST(1)
  \/ CreateFetch(1)
  \/ CreateRespJson(1)
  \/ CreateForward(1)
  \/ \E w \in Webhooks : WebhookPOST(w)
  \/ \E w \in Webhooks : WebhookText(w)
  \/ \E w \in Webhooks : WebhookForward(w)

Spec == Init /\ [][Next]_vars

\* Status queries arriving at any moment while a charge is created and the
\* first webhook is handled.
NextQuery ==
  \/ CreatePOST(1)
  \/ CreateFetch(1)
  \/ CreateRespJson(1)
  \/ CreateForward(1)
  \/ WebhookPOST(1)
  \/ WebhookText(1)
  \/ WebhookForward(1)
  \/ \E q \in Queries : StatusGET(q)

QuerySpec == Init /\ [][NextQuery]_vars

\* Every charge creation running while the first webhook is handled: the
\* store comes to hold more than one record.
NextFrame ==
  \/ \E h \in Creates : CreatePOST(h)
  \/ \E h \in Creates : CreateFetch(h)
  \/ \E h \in Creates : CreateRespJson(h)
  \/ \E h \in Creates : CreateForward(h)
  \/ WebhookPOST(1)
  \/ WebhookText(1)
  \/ WebhookForward(1)

FrameSpec == Init /\ [][NextFrame]_vars

\* ------------------------------------------- direct calls of the library
\* The exported functions of lib/trexpay called directly, on inputs drawn
\* from bounded sets: the verifier, the status mapper, updateStatus (called
\* twice in a row with the same arguments) and the gateway client on the
\* response of its call.

FnPayloads ==
  {[idTransaction |-> GwId(1), metaTxid |-> Empty, status |-> Str_approved,
    paid_at |-> MaxTime],
   [idTransaction |-> GwId(1), metaTxid |-> Empty, status |-> Str_refused,
    paid_at |-> 0],
   [idTransaction |-> Empty, metaTxid |-> GwTxid(1), status |-> Str_paid,
    paid_at |-> 0]}

FnSecrets == {Empty, SecretKey, OtherKey}

\* Signatures: none, the right one for each key and payload, each of those
\* cut short by one character, extended by one, with its last digit changed
\* and without the "sha256=" prefix, and the bare prefix.
FnSignatures ==
  LET good == {expectedSignature(p, k) : p \in FnPayloads, k \in {SecretKey, OtherKey}}
      flip(c) == IF c = "0" THEN "1" ELSE "0"
  IN  {Empty, Str_sha256} \cup good
      \cup {SubSeq(g, 1, Len(g) - 1) : g \in good}
      \cup {g \o <<"0">> : g \in good}
      \cup {[g EXCEPT ![Len(g)] = flip(g[Len(g)])] : g \in good}
      \cup {SubSeq(g, Len(Str_sha256) + 1, Len(g)) : g \in good}

\* Every spelling of a word that differs from it only in the case of its
\* first MaxCaseBits characters.
CaseVariants(word) ==
  LET n == IF Len(word) < MaxCaseBits THEN Len(word) ELSE MaxCaseBits
  IN  {[i \in 1..Len(word) |-> IF i \in S THEN UpperChar(word[i]) ELSE word[i]] :
         S \in SUBSET (1..n)}

KnownWords ==
  {Str_paid, Str_approved, Str_completed, Str_cancelled, Str_canceled,
   Str_refused, Str_expired, Str_pending, Str_waiting_payment}

\* Strings that are none of the known words: the empty string, prefixes and
\* extensions of a known word, and other vocabulary.
OtherWords ==
  {Empty, <<"p","a","i">>, Str_paid \o <<"d">>, <<" ">> \o Str_paid,
   <<"r","e","f","u","n","d","e","d">>, <<"w","a","i","t","i","n","g">>,
   <<"P","A","I","D","_">>, <<"e","x","p","i","r","e">>, <<"0">>}

FnStatuses == UNION {CaseVariants(word) : word \in KnownWords \cup OtherWords}

FnIds == {GwId(1), GwTxid(1)}

\* The records a store can hold: a paid record has its paid timestamp; a
\* record that was paid once keeps it.
FnRecords ==
  {[orderId |-> OrderId(1), status |-> x[1], amount |-> CHOOSE a \in Amounts : TRUE,
    customer |-> Customer(1), trackingParams |-> Empty, products |-> Products(1),
    createdAt |-> 1, paidAt |-> x[2]] :
     x \in {y \in CanonicalStatuses \X ({0} \cup Times) : y[1] = "paid" => y[2] # 0}}

FnStores == UNION {[D -> FnRecords] : D \in SUBSET FnIds}

FnCalls ==
  [kind : {"verify"}, payload : FnPayloads, signature : FnSignatures,
   secret : FnSecrets]
  \cup [kind : {"map"}, status : FnStatuses]
  \cup [kind : {"update"}, store : FnStores, transactionId : FnIds,
        status : CanonicalStatuses, paidAt : {0} \cup Times]
  \cup {[kind |-> "pix", ok |-> ok, body |-> body] :
          ok \in BOOLEAN, body \in ResponseBodies(1)}

InitFn ==
  /\ env = [token |-> TokenValue, secret |-> SecretKey]
  /\ call \in FnCalls
  /\ transactionStore = IF call.kind = "update" THEN call.store ELSE <<>>
  /\ utmStore = {}
  /\ gatewayCalls = [h \in Creates |-> 0]
  /\ utmfyCalls = [x \in Handlers |-> <<>>]
  /\ create = [h \in Creates |-> IdleCreate]
  /\ webhook = [w \in Webhooks |-> IdleWebhook]
  /\ query = [q \in Queries |-> IdleQuery]
  /\ ret = <<>>

FnVerify ==
  /\ call.kind = "verify"
  /\ ret = <<>>
  /\ ret' = <<verifyTrexPaySignature(call.payload, call.signature, call.secret)>>
  /\ UNCHANGED <<env, transactionStore, utmStore, gatewayCalls, utmfyCalls,
                 create, webhook, query, call>>

FnMap ==
  /\ call.kind = "map"
  /\ ret = <<>>
  /\ ret' = <<mapTrexPayStatus(call.status)>>
  /\ UNCHANGED <<env, transactionStore, utmStore, gatewayCalls, utmfyCalls,
                 create, webhook, query, call>>

\* ret collects the store as each call leaves it.
FnUpdate ==
  /\ call.kind = "update"
  /\ Len(ret) < 2
  /\ transactionStore' =
       updateTransactionStatus(transactionStore, call.transactionId,
                               call.status, call.paidAt)
  /\ ret' = Append(ret, transactionStore')
  /\ UNCHANGED <<env, utmStore, gatewayCalls, utmfyCalls, create, webhook, query, call>>

\* createTrexPayPix from the response its fetch resolved with.
FnPix ==
  /\ call.kind = "pix"
  /\ ret = <<>>
  /\ ret' = <<pixFromResponse(call.ok, call.body)>>
  /\ UNCHANGED <<env, transactionStore, utmStore, gatewayCalls, utmfyCalls,
                 create, webhook, query, call>>

NextFn == FnVerify \/ FnMap \/ FnUpdate \/ FnPix

FnSpec == InitFn /\ [][NextFn]_vars

\* ------------------------------------------------------------- properties
\* Two strings that differ at most in the case of their letters.
EqIgnoreCase(a, b) ==
  /\ Len(a) = Len(b)
  /\ \A i \in 1..Len(a) :
       a[i] = b[i] \/ UpperChar(a[i]) = b[i] \/ a[i] = UpperChar(b[i])

MatchesAny(raw, words) == \E word \in words : EqIgnoreCase(raw, word)

\* The transaction id a delivered payload addresses.
WebhookId(req) ==
  IF req.payload.idTransaction # Empty
    THEN req.payload.idTransaction ELSE req.payload.metaTxid

\* The delivery carries a signature header while the secret is configured.
SignatureChecked(req) == req.signature # Empty /\ env.secret # Empty

\* The delivery is processed: its body was read and is JSON, and it is not
\* one the signature check rejects.
Processed(req) ==
  /\ ~req.textFails
  /\ ~req.malformed
  /\ SignatureChecked(req) =>
       req.signature = expectedSignature(req.payload, env.secret)

\* Handler w reads its delivery, now in webhook'[w].req, and runs on it.
Arrives(w) == webhook[w].pc = "text" /\ webhook'[w].pc # "text"

\* C1: once a record's status is paid, cancelled or expired, no operation
\* changes it: every step leaves a terminal status of every record as it is.
C1_TerminalSticky ==
  [][\A id \in DOMAIN transactionStore :
       transactionStore[id].status \in TerminalStatuses =>
         /\ id \in DOMAIN transactionStore'
         /\ transactionStore'[id].status = transactionStore[id].status]_vars

\* C2 as stated: a webhook handler has updated the store only if the
\* verifier was called on that webhook and returned true.
C2_UpdateOnlyVerified ==
  \A w \in Webhooks : webhook[w].updated => webhook[w].isValid = "true"

\* C2, amended: a webhook that carries a signature header while the secret
\* is configured has updated the store only if the verifier returned true on
\* it, its header being the expected signature of its payload; a webhook
\* without a header, or one received with no secret configured, is
\* processed unverified.
C2_UpdateOnlyVerifiedWhenSigned ==
  \A w \in Webhooks :
    webhook[w].updated /\ SignatureChecked(webhook[w].req) =>
      /\ webhook[w].isValid = "true"
      /\ webhook[w].req.signature =
           expectedSignature(webhook[w].req.payload, env.secret)

C2_Witness ==
  \E w \in Webhooks :
    /\ webhook[w].updated
    /\ SignatureChecked(webhook[w].req)
    /\ webhook[w].isValid = "true"

\* C3: a processed webhook whose transaction id has no record is answered
\* 200 "Transaction not found but acknowledged" at once, and that step
\* leaves the transaction store as it was and calls sendOrderToUtmfy for no
\* handler.
C3_UnknownAcknowledged ==
  [][\A w \in Webhooks :
       (/\ Arrives(w)
        /\ Processed(webhook'[w].req)
        /\ WebhookId(webhook'[w].req) \notin DOMAIN transactionStore)
       => /\ webhook'[w].pc = "done"
          /\ webhook'[w].resp = [status |-> 200, body |-> "not_found_acknowledged"]
          /\ transactionStore' = transactionStore
          /\ utmfyCalls' = utmfyCalls]_vars

\* An unknown webhook was acknowledged while the store held a record.
C3_Witness ==
  \E w \in Webhooks :
    /\ webhook[w].pc = "done"
    /\ Processed(webhook[w].req)
    /\ ~webhook[w].found
    /\ webhook[w].resp.body = "not_found_acknowledged"
    /\ WebhookId(webhook[w].req) \notin DOMAIN transactionStore
    /\ transactionStore # <<>>
    /\ utmfyCalls[<<"webhook", w>>] = <<>>

C5_VerifyFailsClosed ==
  (call.kind = "verify" /\ ret # <<>>) =>
    /\ ret[1] \in {"true", "false"}
    /\ ret[1] = "true" <=>
         /\ call.signature # Empty
         /\ call.secret # Empty
         /\ call.signature =
              Str_sha256 \o Hmac(call.secret, JSONstringify(call.payload))

\* The verifier has answered false to a signature whose length is not the
\* expected signature's.
C5_Witness ==
  /\ call.kind = "verify"
  /\ ret = <<"false">>
  /\ call.signature # Empty
  /\ call.secret # Empty
  /\ Len(call.signature) # Len(expectedSignature(call.payload, call.secret))

\* C6: mapStatus returns one of the four canonical values on every string:
\* paid for paid/approved/completed, cancelled for cancelled/canceled/
\* refused, expired for expired, each in any case, and pending for every
\* other string.
C6_MapStatusTotal ==
  (call.kind = "map" /\ ret # <<>>) =>
    /\ ret[1] \in CanonicalStatuses
    /\ ret[1] =
         IF MatchesAny(call.status, {Str_paid, Str_approved, Str_completed})
           THEN "paid"
         ELSE IF MatchesAny(call.status, {Str_cancelled, Str_canceled, Str_refused})
           THEN "cancelled"
         ELSE IF MatchesAny(call.status, {Str_expired})
           THEN "expired"
         ELSE "pending"

\* The mapper has answered cancelled to a spelling of refused that is not
\* all lower case.
C6_Witness ==
  /\ call.kind = "map"
  /\ ret = <<"cancelled">>
  /\ EqIgnoreCase(call.status, Str_refused)
  /\ call.status # Str_refused

\* C7: updateStatus called twice in a row with the same id, terminal status
\* and paidAt leaves the store as the first call left it.
C7_UpdateIdempotent ==
  (call.kind = "update" /\ call.status \in TerminalStatuses /\ Len(ret) = 2) =>
    /\ ret[2] = ret[1]
    /\ transactionStore = ret[1]

\* Two calls were made on a record that the first call changed.
C7_Witness ==
  /\ call.kind = "update"
  /\ call.status \in TerminalStatuses
  /\ Len(ret) = 2
  /\ call.transactionId \in DOMAIN call.store
  /\ ret[1] # call.store

\* C8: updateStatus on an id without a record leaves the store exactly as it
\* was: no record for the id, every other record unchanged.
C8_UpdateMissingNoOp ==
  (call.kind = "update" /\ call.transactionId \notin DOMAIN call.store
     /\ ret # <<>>) =>
    /\ ret[1] = call.store
    /\ transactionStore = call.store
    /\ call.transactionId \notin DOMAIN transactionStore

\* The call was made on a store that holds another record.
C8_Witness ==
  /\ call.kind = "update"
  /\ call.transactionId \notin DOMAIN call.store
  /\ call.store # <<>>
  /\ Len(ret) >= 1

\* C9: with the token or the secret unset, no charge-creation handler
\* reaches the gateway, and every result createTrexPayPix gives is a
\* returned value with success = false.
C9_NoCredentialsNoCall ==
  (env.token = Empty \/ env.secret = Empty) =>
    \A h \in Creates :
      /\ gatewayCalls[h] = 0
      /\ create[h].fetch = "none"
      /\ create[h].pix.outcome # "throw"
      /\ ~create[h].pix.success
      /\ (create[h].pc = "done" /\ create[h].body \in {"valid", "valid_utm"}) =>
           create[h].pix.outcome = "return"

\* A valid request was refused with only the token unset.
C9_Witness ==
  /\ env.token = Empty
  /\ env.secret # Empty
  /\ \E h \in Creates :
       /\ create[h].pc = "done"
       /\ create[h].body = "valid"
       /\ create[h].pix.outcome = "return"
       /\ ~create[h].pix.success
       /\ gatewayCalls[h] = 0

\* C10: createTrexPayPix never throws: once the gateway call has settled the
\* handler holds a returned result, and the result has success = false when
\* fetch rejected, when the response body was not JSON, and when the HTTP
\* status was not a success.
C10_CreateNeverThrows ==
  \A h \in Creates :
    /\ create[h].pix.outcome # "throw"
    /\ (create[h].fetch = "rejected" \/ create[h].bodyKind # "none") =>
         create[h].pix.outcome = "return"
    /\ (\/ create[h].fetch = "rejected"
        \/ create[h].bodyKind = "unparseable"
        \/ (create[h].bodyKind # "none" /\ ~create[h].httpOk)) =>
         ~create[h].pix.success

\* A response whose body was not JSON ended in a returned failure.
C10_Witness ==
  \E h \in Creates :
    /\ create[h].bodyKind = "unparseable"
    /\ create[h].pix.outcome = "return"
    /\ ~create[h].pix.success
    /\ create[h].resp.status = 500

\* C11: with credentials configured, when the gateway answers 2xx with a
\* JSON object carrying the transaction id under transaction_id, id or
\* idTransaction, createTrexPayPix returns success = true with that id as
\* its non-empty transaction_id.
C11_SuccessOnAnyIdName ==
  (/\ call.kind = "pix"
   /\ ret # <<>>
   /\ env.token # Empty /\ env.secret # Empty
   /\ call.ok
   /\ call.body.kind = "object"
   /\ \/ call.body.transaction_id # Empty
      \/ call.body.id # Empty
      \/ call.body.idTransaction # Empty) =>
    /\ ret[1].outcome = "return"
    /\ ret[1].success
    /\ ret[1].transaction_id # Empty
    /\ ret[1].transaction_id \in
         {call.body.transaction_id, call.body.id, call.body.idTransaction}

\* A 2xx answer carrying the id as idTransaction gave a successful result.
C11_Witness ==
  /\ call.kind = "pix"
  /\ ret # <<>>
  /\ call.ok
  /\ call.body.kind = "object"
  /\ call.body.idTransaction # Empty
  /\ ret[1].success
  /\ ret[1].transaction_id = GwId(1)

\* C12: however a handler's call to sendOrderToUtmfy settles, resolved or
\* rejected, the step in which it settles answers the charge creation with
\* the 200 carrying the PIX data, and the webhook with the 200
\* {success: true, status}; that step leaves the transaction store as it
\* was, the saved or updated record included.
C12_ForwardFailureHarmless ==
  [][/\ \A h \in Creates :
          (create[h].pc = "forward" /\ create'[h].pc # "forward") =>
            /\ create'[h].pc = "done"
            /\ create'[h].resp = [status |-> 200, body |-> "pix_created"]
            /\ create[h].pix.success
            /\ create[h].transactionId \in DOMAIN transactionStore'
            /\ transactionStore' = transactionStore
     /\ \A w \in Webhooks :
          (webhook[w].pc = "forward" /\ webhook'[w].pc # "forward") =>
            /\ webhook'[w].pc = "done"
            /\ webhook'[w].resp = [status |-> 200, body |-> "processed"]
            /\ webhook[w].updated
            /\ webhook[w].transactionId \in DOMAIN transactionStore'
            /\ transactionStore' = transactionStore]_vars

\* A charge creation and a webhook have both answered after their
\* forwarding call settled.
C12_Witness ==
  /\ \E h \in Creates :
       /\ create[h].pc = "done"
       /\ create[h].resp = [status |-> 200, body |-> "pix_created"]
       /\ Len(utmfyCalls[<<"create", h>>]) = 1
       /\ create[h].transactionId \in DOMAIN transactionStore
  /\ \E w \in Webhooks :
       /\ webhook[w].pc = "done"
       /\ webhook[w].updated
       /\ Len(utmfyCalls[<<"webhook", w>>]) = 1
       /\ webhook[w].resp = [status |-> 200, body |-> "processed"]
       /\ transactionStore[webhook[w].transactionId].status = webhook[w].status

\* C13: a status query with a transaction id leaves the store as it was and
\* answers 200 with the record's stored status and its paid timestamp (null
\* when it has none) when the id has a record, and with status pending when
\* it has none.
C13_StatusQuery ==
  [][\A q \in Queries :
       (/\ query[q].pc = "idle"
        /\ query'[q].pc = "done"
        /\ query'[q].transactionId # Empty) =>
         LET id == query'[q].transactionId
         IN  /\ transactionStore' = transactionStore
             /\ query'[q].resp =
                  IF id \in DOMAIN transactionStore
                    THEN [status |-> 200, body |-> "found",
                          txStatus |-> transactionStore[id].status,
                          paidAt |-> transactionStore[id].paidAt]
                    ELSE [status |-> 200, body |-> "not_found",
                          txStatus |-> "pending", paidAt |-> 0]]_vars

\* C14: every record of the transaction store has one of the four statuses
\* pending, paid, cancelled, expired, in every state the charge-creation
\* and webhook handlers reach.
C14_CanonicalStatus ==
  \A id \in DOMAIN transactionStore :
    transactionStore[id].status \in CanonicalStatuses

\* A webhook whose raw status is REFUSED has left its record cancelled, and
\* one whose raw status is waiting_payment has left its record pending.
C14_Witness ==
  \E w \in Webhooks, v \in Webhooks :
    /\ webhook[w].updated
    /\ webhook[w].req.payload.status \notin KnownWords
    /\ webhook[w].status = "cancelled"
    /\ webhook[v].updated
    /\ webhook[v].pc = "done"
    /\ webhook[v].req.payload.status = Str_waiting_payment
    /\ transactionStore[webhook[v].transactionId].status = "pending"

\* C15: a charge-creation handler issues its one notification, with status
\* waiting_payment, in the step that saves the record as pending, and at
\* that moment no webhook handler has issued a notification for that order;
\* a webhook handler issues a notification only with status paid or
\* refused, for the order of a stored record whose waiting_payment
\* notification has been issued already; and a webhook whose mapped status
\* is pending issues none.
C15_NotificationOrder ==
  [][/\ \A h \in Creates :
          LET me == <<"create", h>>
          IN  utmfyCalls'[me] # utmfyCalls[me] =>
                /\ utmfyCalls[me] = <<>>
                /\ utmfyCalls'[me] =
                     <<[orderId |-> create'[h].orderId, status |-> "waiting_payment"]>>
                /\ create'[h].transactionId \in DOMAIN transactionStore'
                /\ transactionStore'[create'[h].transactionId].orderId = create'[h].orderId
                /\ transactionStore'[create'[h].transactionId].status = "pending"
                /\ transactionStore' # transactionStore
                /\ \A w \in Webhooks :
                     \A k \in 1..Len(utmfyCalls'[<<"webhook", w>>]) :
                       utmfyCalls'[<<"webhook", w>>][k].orderId # create'[h].orderId
     /\ \A w \in Webhooks :
          LET me == <<"webhook", w>>
          IN  /\ utmfyCalls'[me] # utmfyCalls[me] =>
                   /\ utmfyCalls[me] = <<>>
                   /\ Len(utmfyCalls'[me]) = 1
                   /\ utmfyCalls'[me][1].status \in {"paid", "refused"}
                   /\ webhook'[w].status \in TerminalStatuses
                   /\ \E h \in Creates :
                        /\ utmfyCalls[<<"create", h>>] =
                             <<[orderId |-> utmfyCalls'[me][1].orderId,
                                status |-> "waiting_payment"]>>
                        /\ transactionStore[create[h].transactionId].orderId =
                             utmfyCalls'[me][1].orderId
              /\ webhook'[w].status = "pending" => utmfyCalls'[me] = <<>>]_vars

\* After the waiting_payment notification of an order, one webhook has
\* issued paid for it and another, mapped to pending, has updated the
\* record and issued nothing.
C15_Witness ==
  \E h \in Creates, w \in Webhooks, v \in Webhooks :
    /\ utmfyCalls[<<"create", h>>] =
         <<[orderId |-> OrderId(h), status |-> "waiting_payment"]>>
    /\ utmfyCalls[<<"webhook", w>>] = <<[orderId |-> OrderId(h), status |-> "paid"]>>
    /\ webhook[v].pc = "done"
    /\ webhook[v].updated
    /\ webhook[v].status = "pending"
    /\ utmfyCalls[<<"webhook", v>>] = <<>>

\* C16: no handler repeats an outbound call: a charge-creation handler
\* makes at most one gateway call and at most one forwarding call, a
\* webhook handler at most one forwarding call; a handler whose gateway
\* call failed (fetch rejected, body not JSON, status not 2xx) has made
\* exactly one and has ended, and a handler that has ended makes no call.
C16_SingleAttempt ==
  /\ \A h \in Creates :
       /\ gatewayCalls[h] <= 1
       /\ Len(utmfyCalls[<<"create", h>>]) <= 1
       /\ (create[h].fetch # "none" /\ create[h].pix.outcome # "none"
             /\ ~create[h].pix.success) =>
            /\ gatewayCalls[h] = 1
            /\ create[h].pc = "done"
            /\ utmfyCalls[<<"create", h>>] = <<>>
  /\ \A w \in Webhooks : Len(utmfyCalls[<<"webhook", w>>]) <= 1
  /\ \A x \in Handlers :
       (IF x[1] = "create" THEN create[x[2]].pc ELSE webhook[x[2]].pc) = "forward"
         => Len(utmfyCalls[x]) = 1

\* A charge creation whose fetch was rejected has ended, with an error
\* answer, after its one gateway call.
C16_Witness ==
  \E h \in Creates :
    /\ create[h].pc = "done"
    /\ create[h].fetch = "rejected"
    /\ create[h].resp.status = 500
    /\ gatewayCalls[h] = 1
    /\ utmfyCalls[<<"create", h>>] = <<>>

\* C17: nothing orders the webhook handlers that are in flight (awaiting
\* request.text()): each of them can run next, whichever arrived first, and
\* the one that runs on a known id with a terminal status writes that
\* status over whatever the record holds, while the others stay in flight.
\* So of two deliveries in flight together for one id, the one applied
\* last decides the stored status, and either can be the last.
C17_WebhooksRace ==
  /\ [](\A w \in Webhooks : webhook[w].pc = "text" => ENABLED WebhookText(w))
  /\ [][\A w \in Webhooks :
          (/\ Arrives(w)
           /\ webhook'[w].updated
           /\ webhook'[w].status \in TerminalStatuses) =>
            /\ transactionStore'[webhook'[w].transactionId].status = webhook'[w].status
            /\ \A v \in Webhooks \ {w} : webhook'[v] = webhook[v]]_vars

\* Two deliveries for one id with different terminal statuses were in
\* flight together: the record holds the status of the one that arrived
\* first, which was therefore applied after the other.
C17_Witness ==
  /\ webhook[1].updated
  /\ webhook[2].updated
  /\ webhook[1].transactionId = webhook[2].transactionId
  /\ webhook[1].status \in TerminalStatuses
  /\ webhook[2].status \in TerminalStatuses
  /\ webhook[1].status # webhook[2].status
  /\ transactionStore[webhook[1].transactionId].status = webhook[1].status

\* C18: once every handler has finished, a charge whose creation answered
\* with success, and for which the gateway delivered a processed webhook
\* with a paid-class status and no webhook with any other status, has its
\* record stored with status paid, whenever that delivery arrived after the
\* gateway was asked to create the charge.
C18_PaidNeverLost ==
  (/\ \A h \in Creates : create[h].pc \in {"idle", "done"}
   /\ \A w \in Webhooks : webhook[w].pc \in {"idle", "done"}) =>
    \A h \in Creates, w \in Webhooks :
      (/\ create[h].resp = [status |-> 200, body |-> "pix_created"]
       /\ webhook[w].pc = "done"
       /\ Processed(webhook[w].req)
       /\ WebhookId(webhook[w].req) = create[h].transactionId
       /\ MatchesAny(webhook[w].req.payload.status,
                     {Str_paid, Str_approved, Str_completed})
       /\ \A v \in Webhooks :
            (webhook[v].pc = "done" /\ Processed(webhook[v].req)
               /\ WebhookId(webhook[v].req) = create[h].transactionId) =>
              MatchesAny(webhook[v].req.payload.status,
                         {Str_paid, Str_approved, Str_completed})) =>
        /\ create[h].transactionId \in DOMAIN transactionStore
        /\ transactionStore[create[h].transactionId].status = "paid"

\* C19: a webhook whose body is JSON, which carries a signature header
\* while the secret is configured, and whose header is not the expected
\* signature of its payload, is answered 401 "Invalid signature" in the
\* step that reads it; that step changes neither the transaction store nor
\* any handler's forwarding calls, and the handler, ended, has updated
\* nothing and forwarded nothing.
C19_BadSignatureRejected ==
  [][\A w \in Webhooks :
       /\ (/\ Arrives(w)
           /\ ~webhook'[w].req.textFails
           /\ ~webhook'[w].req.malformed
           /\ SignatureChecked(webhook'[w].req)
           /\ webhook'[w].req.signature #
                expectedSignature(webhook'[w].req.payload, env.secret)) =>
            /\ webhook'[w].pc = "done"
            /\ webhook'[w].resp = [status |-> 401, body |-> "invalid_signature"]
            /\ webhook'[w].isValid = "false"
            /\ transactionStore' = transactionStore
            /\ utmfyCalls' = utmfyCalls
       /\ webhook'[w].resp.status = 401 =>
            /\ ~webhook'[w].updated
            /\ utmfyCalls'[<<"webhook", w>>] = <<>>]_vars

\* A delivery with a bad signature header, naming a stored record with a
\* paid-class status, was answered 401 and the record is still pending.
C19_Witness ==
  \E w \in Webhooks :
    /\ webhook[w].pc = "done"
    /\ SignatureChecked(webhook[w].req)
    /\ webhook[w].req.signature #
         expectedSignature(webhook[w].req.payload, env.secret)
    /\ webhook[w].req.payload.status = Str_approved
    /\ webhook[w].resp.status = 401
    /\ WebhookId(webhook[w].req) \in DOMAIN transactionStore
    /\ transactionStore[WebhookId(webhook[w].req)].status = "pending"
    /\ utmfyCalls[<<"webhook", w>>] = <<>>

\* C20: in every reachable state a record whose status is not paid has no
\* paid timestamp.
C20_PaidAtOnlyWhenPaid ==
  \A id \in DOMAIN transactionStore :
    transactionStore[id].status # "paid" => transactionStore[id].paidAt = 0

\* C21: a step of a webhook handler removes no record and adds none, changes
\* no field of any record other than status and paidAt, and leaves every
\* record other than the one the webhook addresses as it was.
C21_WebhookFrame ==
  [][\A w \in Webhooks :
       webhook'[w] # webhook[w] =>
         /\ DOMAIN transactionStore' = DOMAIN transactionStore
         /\ \A id \in DOMAIN transactionStore :
              /\ transactionStore'[id] =
                   [transactionStore[id] EXCEPT
                      !.status = transactionStore'[id].status,
                      !.paidAt = transactionStore'[id].paidAt]
              /\ id # webhook'[w].transactionId =>
                   transactionStore'[id] = transactionStore[id]]_vars

\* Two records are stored and a webhook has made one of them paid; the other
\* is still as it was saved.
C21_Witness ==
  /\ Cardinality(DOMAIN transactionStore) = 2
  /\ \E w \in Webhooks :
       /\ webhook[w].updated
       /\ webhook[w].transactionId \in DOMAIN transactionStore
       /\ transactionStore[webhook[w].transactionId].status = "paid"
       /\ transactionStore[webhook[w].transactionId].paidAt # 0
       /\ \E id \in DOMAIN transactionStore :
            /\ id # webhook[w].transactionId
            /\ transactionStore[id].status = "pending"
            /\ transactionStore[id].paidAt = 0

\* C22: a step of a charge-creation handler that changes the store or issues
\* a notification is the step in which createTrexPayPix returned success (it
\* saves one pending record and issues the waiting_payment call), and a
\* handler that answers with an error (a validation 400, or the 500 of a
\* failure result) changes neither in that step and has issued no call.
C22_FailureLeavesStore ==
  [][\A h \in Creates :
       create'[h] # create[h] =>
         /\ (transactionStore' # transactionStore \/ utmfyCalls' # utmfyCalls) =>
              /\ create'[h].pix.outcome = "return"
              /\ create'[h].pix.success
              /\ create[h].pix.outcome = "none"
              /\ create'[h].transactionId \in DOMAIN transactionStore'
              /\ transactionStore'[create'[h].transactionId].status = "pending"
              /\ utmfyCalls'[<<"create", h>>] =
                   <<[orderId |-> create'[h].orderId, status |-> "waiting_payment"]>>
         /\ (create'[h].pc = "done" /\ create'[h].resp.status # 200) =>
              /\ transactionStore' = transactionStore
              /\ utmfyCalls' = utmfyCalls
              /\ utmfyCalls[<<"create", h>>] = <<>>
              /\ create'[h].transactionId = Empty]_vars

\* With one charge saved, another creation got a non-success HTTP answer
\* from the gateway and ended with the 500: the store holds the one record
\* and the failed handler issued no call.
C22_Witness ==
  \E h \in Creates, g \in Creates :
    /\ h # g
    /\ create[g].pix.success
    /\ DOMAIN transactionStore = {create[g].transactionId}
    /\ create[h].pc = "done"
    /\ create[h].fetch = "resolved"
    /\ ~create[h].httpOk
    /\ create[h].pix.outcome = "return"
    /\ ~create[h].pix.success
    /\ create[h].resp = [status |-> 500, body |-> "gateway_error"]
    /\ gatewayCalls[h] = 1
    /\ utmfyCalls[<<"create", h>>] = <<>>

\* C23: the step in which a webhook handler finds the record is the step in
\* which it updates it: the id is in the store as that step finds it, the
\* store after the step is that store with the handler's status (and paid
\* timestamp, when it has one) written on the record, no state has a handler
\* between its lookup and its update, and no other step of the handler
\* writes the store.
C23_LookupUpdateAtomic ==
  [][\A w \in Webhooks :
       /\ webhook'[w].found = webhook'[w].updated
       /\ (~webhook[w].found /\ webhook'[w].found) =>
            /\ webhook'[w].transactionId \in DOMAIN transactionStore
            /\ transactionStore' =
                 [transactionStore EXCEPT ![webhook'[w].transactionId] =
                    [@ EXCEPT !.status = webhook'[w].status,
                              !.paidAt = IF webhook'[w].paidAt # 0
                                           THEN webhook'[w].paidAt ELSE @]]
       /\ (webhook'[w] # webhook[w] /\ webhook[w].found = webhook'[w].found) =>
            transactionStore' = transactionStore]_vars

\* While the charge-creation handler and the first webhook handler both
\* await their forwarding calls, the second webhook handler found the same
\* record and wrote another status on it.
C23_Witness ==
  /\ create[1].pc = "forward"
  /\ webhook[1].pc = "forward"
  /\ webhook[1].updated
  /\ webhook[2].found
  /\ webhook[2].updated
  /\ webhook[2].transactionId = webhook[1].transactionId
  /\ webhook[2].status # webhook[1].status
  /\ transactionStore[webhook[2].transactionId].status = webhook[2].status

====
